---- MODULE Spec2Model ----
(***************************************************************************)
(* Model of the campus-event chatbot service:                              *)
(*   chatbot/services/groq_service.py  (GroqChatService)                   *)
(*   chatbot/api/chatbot_routes.py     (the three HTTP handlers)           *)
(* The state is the in-memory dictionary GroqChatService.conversations,    *)
(* the uuid4 and wall-clock sources the service reads, and a record of the *)
(* last HTTP exchange (request, prompt sent upstream, response).           *)
(***************************************************************************)
EXTENDS Integers, Sequences, FiniteSets, TLC

\* ------------------------------------------------------------------ bounds
\* Exploration bounds of the three specifications.
\*   Spec      several conversations, a few turns in all
\*   SpecLong  one conversation, many turns
\*   SpecClock one conversation, a few turns, the wall clock advancing
MaxConvs == 2
MaxTurns == 3
LongTurns == 8
ClockTurns == 2
MaxClock == 2
\*   SpecConc  one conversation, chat calls running step by step in two
\*             concurrent callers
\*   SpecStep  one conversation, one caller running step by step, the wall
\*             clock advancing
ConcTurns == 2

\* ------------------------------------------------------- program constants
\* history[-10:]  "Keep last 10 messages for context"
HistoryWindow == 10

\* get_system_prompt() returns one fixed text
SystemPrompt == "You are a helpful AI assistant for a Campus Event Management Platform."

\* the text returned by the except branch of chat()
ApologyText == "I'm sorry, I'm having trouble connecting right now. Please try again in a moment."

\* Python None (ChatRequest.conversation_id defaults to None)
None == "<None>"
\* the empty string: a str that is falsy, so `not conversation_id` holds
EmptyStr == ""
\* a caller-chosen id that uuid4 never produces
ForeignId == "not-a-uuid"

\* ------------------------------------------------------------------ inputs
Texts == {"Hello", "Bye"}
Replies == {"Hi there"}
NoContent == "<no response>"

\* what client.chat.completions.create(...) can do: return a completion
\* whose choices[0].message.content is a text, or raise
UpstreamOutcomes ==
  {[raises |-> FALSE, content |-> r] : r \in Replies}
    \cup {[raises |-> TRUE, content |-> NoContent]}

\* what os.getenv("GROQ_API_KEY") can return: None (not set), "" or a key
ApiKeys == {None, EmptyStr, "gsk-key"}

VARIABLES
  api_key,        \* the GROQ_API_KEY of the process environment
  groq_service,   \* the module-level groq_service of chatbot_routes
  conversations,  \* GroqChatService.conversations
  conv_uuids,     \* how many conversation ids uuid4 has produced
  msg_uuids,      \* how many message ids uuid4 has produced
  now,            \* what datetime.now() shows
  returned,       \* the conversation ids chat has returned so far
  cleared_ids,    \* the ids for which clear_conversation has returned True
  last,           \* the last HTTP exchange
  threads,        \* the chat calls in progress, one per concurrent caller
  turns,          \* the turns that appended both of their messages
  raced,          \* the ids on which two turns interleaved their appends
  upstream_ok     \* per stored id, how many chat calls on it got an upstream
                  \* response

\* the process: its environment and whether the service object exists
boot == <<api_key, groq_service>>

\* the bookkeeping of chat calls that run step by step
conc == <<threads, turns, raced, upstream_ok>>

vars == <<api_key, groq_service, conversations, conv_uuids, msg_uuids, now,
          returned, cleared_ids, last, threads, turns, raced, upstream_ok>>

\* ----------------------------------------------------------------- helpers
Min(a, b) == IF a < b THEN a ELSE b
Max(a, b) == IF a > b THEN a ELSE b

\* Python truthiness of an Optional[str]: None and "" are falsy
Truthy(s) == s # None /\ s # EmptyStr

\* str(uuid.uuid4()): a value never produced before.  Conversation ids and
\* message ids are never compared with each other, so each has its own
\* stream; n is the number of values the stream has produced so far.
ConvUuid(n) == "c" \o ToString(n)
MsgUuid(n) == "m" \o ToString(n)

\* the ids uuid4 has produced for conversations so far
IssuedConvIds == {ConvUuid(i) : i \in 1..conv_uuids}

\* dict.get(key, default)
DictGet(d, k, default) == IF k \in DOMAIN d THEN d[k] ELSE default

\* an assignment that drops every other key
DictSet_only(d, k, v) == [x \in {k} |-> v]

\* d[k] = v
DictSet(d, k, v) == [x \in DOMAIN d \cup {k} |-> IF x = k THEN v ELSE d[x]]

\* del d[k]
DictDel(d, k) == [x \in DOMAIN d \ {k} |-> d[x]]

\* seq[:n] where seq[-n:] was meant
LastN_head(seq, n) == SubSeq(seq, 1, Min(n, Len(seq)))

\* seq[-n:]
LastN(seq, n) == SubSeq(seq, Max(1, Len(seq) - n + 1), Len(seq))

\* {"role": msg["role"], "content": msg["content"]}
RoleContent(msg) == [role |-> msg.role, content |-> msg.content]

\* ------------------------------------------------------- GroqChatService
\* Every operation is an operator from the dictionary (and the arguments)
\* to a record holding the dictionary afterwards, the returned value and
\* whether the call raised instead of returning.

\* a constructor that does not look at the key
GroqChatService_init_unchecked(key) ==
  [raised |-> FALSE, conversations |-> [c \in {} |-> <<>>]]

\* __init__: ValueError when the key is missing, an empty dictionary otherwise
GroqChatService_init(key) ==
  IF ~Truthy(key)
    THEN [raised |-> TRUE, conversations |-> [c \in {} |-> <<>>]]
    ELSE [raised |-> FALSE, conversations |-> [c \in {} |-> <<>>]]

\* an id generator that hands out the same id again
generate_conversation_id_reused(n) == ConvUuid(1)

generate_conversation_id(n) == ConvUuid(n + 1)

\* self.conversations = {conversation_id: []}: the whole dictionary replaced
InitConversation_reset(convs, cid) == [x \in {cid} |-> <<>>]

\* self.conversations[conversation_id] = []
InitConversation(convs, cid) == DictSet(convs, cid, <<>>)

\* lines 45-56 of chat(): the list handed to the upstream model
BuildMessages(history, message) ==
  LET window == LastN(history, HistoryWindow)
  IN  <<[role |-> "system", content |-> SystemPrompt]>>
        \o [i \in 1..Len(window) |-> RoleContent(window[i])]
        \o <<[role |-> "user", content |-> message]>>

\* the user message is not appended
AppendTurn_assistant_only(history, user_msg, assistant_msg) ==
  Append(history, assistant_msg)

\* a store that keeps only the window of the prompt
AppendTurn_capped(history, user_msg, assistant_msg) ==
  LastN(Append(Append(history, user_msg), assistant_msg), HistoryWindow)

\* lines 71-85: the two appends of a turn
AppendTurn(history, user_msg, assistant_msg) ==
  Append(Append(history, user_msg), assistant_msg)

\* an except branch that records the apology in the history
ExceptBranch_appends(convs, nconv, nmsg, messages, cid, clock) ==
  [conversations |->
     IF cid \in DOMAIN convs
       THEN DictSet(convs, cid,
              Append(convs[cid], [id |-> MsgUuid(nmsg + 1), role |-> "assistant",
                                  content |-> ApologyText, timestamp |-> clock]))
       ELSE convs,
   conv_uuids |-> nconv, msg_uuids |-> nmsg + 1,
   messages |-> messages, raised |-> FALSE,
   ret |-> [message |-> ApologyText, conversation_id |-> cid,
            timestamp |-> clock]]

\* lines 93-99: the except branch.  Nothing is appended, no message id has
\* been drawn, and the apology is returned with the clock value of line 98.
ExceptBranch(convs, nconv, nmsg, messages, cid, clock) ==
  [conversations |-> convs, conv_uuids |-> nconv, msg_uuids |-> nmsg,
   messages |-> messages, raised |-> FALSE,
   ret |-> [message |-> ApologyText, conversation_id |-> cid,
            timestamp |-> clock]]

\* chat(message, conversation_id).  up is what the upstream call does and
\* clock what datetime.now() shows while the call runs: line 69 reads it on
\* the success path, line 98 on the failure paths (the value line 69 read
\* before a KeyError at line 72 is dropped).
chat(convs, nconv, nmsg, message, conversation_id, up, clock) ==
  LET absent == ~Truthy(conversation_id)
      cid == IF absent THEN generate_conversation_id(nconv) ELSE conversation_id
      nconv1 == IF absent THEN nconv + 1 ELSE nconv
      convs1 == IF absent THEN InitConversation(convs, cid) ELSE convs
      history == DictGet(convs1, cid, <<>>)
      messages == BuildMessages(history, message)
      user_msg == [id |-> MsgUuid(nmsg + 1), role |-> "user",
                   content |-> message, timestamp |-> clock]
      assistant_msg == [id |-> MsgUuid(nmsg + 2), role |-> "assistant",
                        content |-> up.content, timestamp |-> clock]
  IN  IF up.raises
        \* client.chat.completions.create raised (or the completion was
        \* malformed): caught at line 93
        THEN ExceptBranch(convs1, nconv1, nmsg, messages, cid, clock)
      ELSE IF cid \notin DOMAIN convs1
        \* self.conversations[conversation_id] at line 72 raises KeyError
        \* before the message dict is built: caught at line 93
        THEN ExceptBranch(convs1, nconv1, nmsg, messages, cid, clock)
      ELSE
        [conversations |->
           DictSet(convs1, cid, AppendTurn(convs1[cid], user_msg, assistant_msg)),
         conv_uuids |-> nconv1, msg_uuids |-> nmsg + 2,
         messages |-> messages, raised |-> FALSE,
         ret |-> [message |-> up.content, conversation_id |-> cid,
                  timestamp |-> clock]]

\* ---- chat() statement by statement, for callers that run concurrently
\* lines 38-56: resolve the id, read the history, build the list to send
ChatEnter(convs, nconv, message, conversation_id) ==
  LET absent == ~Truthy(conversation_id)
      cid == IF absent THEN generate_conversation_id(nconv) ELSE conversation_id
      convs1 == IF absent THEN InitConversation(convs, cid) ELSE convs
  IN  [conversations |-> convs1,
       conv_uuids |-> IF absent THEN nconv + 1 ELSE nconv,
       cid |-> cid,
       messages |-> BuildMessages(DictGet(convs1, cid, <<>>), message)]

\* an append that creates the list when the key is missing
ListAppend_setdefault(convs, cid, msg) ==
  [raised |-> FALSE,
   conversations |-> DictSet(convs, cid, Append(DictGet(convs, cid, <<>>), msg))]

\* an append at the front of the stored list
ListAppend_front(convs, cid, msg) ==
  IF cid \notin DOMAIN convs
    THEN [raised |-> TRUE, conversations |-> convs]
    ELSE [raised |-> FALSE,
          conversations |-> DictSet(convs, cid, <<msg>> \o convs[cid])]

\* an append that replaces the stored list by the new message
ListAppend_overwrite(convs, cid, msg) ==
  IF cid \notin DOMAIN convs
    THEN [raised |-> TRUE, conversations |-> convs]
    ELSE [raised |-> FALSE, conversations |-> DictSet(convs, cid, <<msg>>)]

\* self.conversations[conversation_id].append(msg), lines 72 and 80:
\* KeyError when the id is not a key, an append to the stored list otherwise
ListAppend(convs, cid, msg) ==
  IF cid \notin DOMAIN convs
    THEN [raised |-> TRUE, conversations |-> convs]
    ELSE [raised |-> FALSE,
          conversations |-> DictSet(convs, cid, Append(convs[cid], msg))]

\* lines 72-77: the dict appended for the user message
UserMessage(id, message, timestamp) ==
  [id |-> id, role |-> "user", content |-> message, timestamp |-> timestamp]

\* the reply stored under the role of the user
AssistantMessage_as_user(id, content, timestamp) ==
  [id |-> id, role |-> "user", content |-> content, timestamp |-> timestamp]

\* lines 80-85: the dict appended for the assistant message
AssistantMessage(id, content, timestamp) ==
  [id |-> id, role |-> "assistant", content |-> content,
   timestamp |-> timestamp]

\* the timestamp is taken when chat() is entered
TurnTimestamp_at_call(called_at, responded_at) == called_at

\* line 69: timestamp = datetime.now(), after the upstream call returned
TurnTimestamp(called_at, responded_at) == responded_at

\* the id of the user message is used again
AssistantMessageId_same(user_id, nmsg) == user_id

\* line 81: str(uuid.uuid4()) for the assistant message
AssistantMessageId(user_id, nmsg) == MsgUuid(nmsg + 1)

\* self.conversations.setdefault(conversation_id, [])
get_conversation_history_setdefault(convs, conversation_id) ==
  [conversations |->
     IF conversation_id \in DOMAIN convs THEN convs
     ELSE DictSet(convs, conversation_id, <<>>),
   raised |-> FALSE, ret |-> DictGet(convs, conversation_id, <<>>)]

get_conversation_history(convs, conversation_id) ==
  [conversations |-> convs, raised |-> FALSE,
   ret |-> DictGet(convs, conversation_id, <<>>)]

\* reports the conversation as removed but leaves it in the dictionary
clear_conversation_keeps(convs, conversation_id) ==
  [conversations |-> convs, raised |-> FALSE,
   ret |-> conversation_id \in DOMAIN convs]

clear_conversation(convs, conversation_id) ==
  IF conversation_id \in DOMAIN convs
    THEN [conversations |-> DictDel(convs, conversation_id),
          raised |-> FALSE, ret |-> TRUE]
    ELSE [conversations |-> convs, raised |-> FALSE, ret |-> FALSE]

\* ------------------------------------------------------------- HTTP layer
NoRet == [message |-> "", conversation_id |-> "", timestamp |-> 0]
NoUpstream == [raises |-> TRUE, content |-> NoContent]

\* the ids a caller can put in a request: any id the service has handed
\* out, or a string of the caller's own
PathIds == IssuedConvIds \cup {ForeignId}
BodyIds == PathIds \cup {None, EmptyStr}

\* The record of one HTTP exchange: the request (op, message,
\* conversation_id), what the upstream call did and the list it was sent,
\* the value the service returned (ret for chat, history for the history
\* fetch, cleared for clear), the HTTP status, and the dictionary and the
\* set of ids returned by chat as they were when the request arrived.
Exchange(op, message, cid, up, messages, ret, history, cleared, status) ==
  [op |-> op, message |-> message, conversation_id |-> cid, upstream |-> up,
   messages |-> messages, ret |-> ret, history |-> history,
   cleared |-> cleared, status |-> status,
   before |-> conversations, returned_before |-> returned]

\* an `except Exception` around a handler body: whatever the body raised
\* (an HTTPException included) becomes HTTPException(500)
ExceptException(body) == IF body.raised THEN 500 ELSE body.status

\* the concurrent callers of the service
Threads == {"t1", "t2"}

\* a caller with no chat call in progress
IdleThread ==
  [pc |-> "idle", message |-> "", conversation_id |-> None, cid |-> "",
   messages |-> <<>>, up |-> NoUpstream, user_id |-> "", timestamp |-> 0,
   called_at |-> 0, responded_at |-> 0]

\* The process before chatbot_routes is imported: no service object yet.
Init ==
  /\ api_key \in ApiKeys
  /\ groq_service = "unbound"
  /\ cleared_ids = {}
  /\ threads = [t \in Threads |-> IdleThread]
  /\ turns = {}
  /\ raced = {}
  /\ upstream_ok = [c \in {} |-> 0]
  /\ conversations = [c \in {} |-> <<>>]
  /\ conv_uuids = 0
  /\ msg_uuids = 0
  /\ now = 0
  /\ returned = {}
  /\ last = [op |-> "none", message |-> "", conversation_id |-> None,
             upstream |-> NoUpstream, messages |-> <<>>, ret |-> NoRet,
             history |-> <<>>, cleared |-> FALSE, status |-> 0,
             before |-> [c \in {} |-> <<>>], returned_before |-> {}]

\* groq_service = GroqChatService() at the import of chatbot_routes, which
\* main.py imports before the app can serve: when __init__ raises, the
\* import fails and the process ends without a router.
import_chatbot_routes ==
  /\ groq_service = "unbound"
  /\ LET r == GroqChatService_init(api_key)
     IN  /\ groq_service' = IF r.raised THEN "ValueError" ELSE "constructed"
         /\ conversations' = r.conversations
  /\ UNCHANGED <<api_key, conv_uuids, msg_uuids, now, returned, cleared_ids,
                 last, conc>>

\* the handlers exist only once the import has bound groq_service
Serving == groq_service = "constructed"

\* the wall clock datetime.now() reads moves on between requests
Tick ==
  /\ Serving
  /\ now < MaxClock
  /\ now' = now + 1
  /\ UNCHANGED <<boot, conversations, conv_uuids, msg_uuids, returned,
                 cleared_ids, last, conc>>

\* POST /api/chatbot/chat
chat_endpoint(maxConvs, maxTurns) ==
  \E message \in Texts, cid \in BodyIds, up \in UpstreamOutcomes :
    LET r == chat(conversations, conv_uuids, msg_uuids, message, cid, up, now)
        body == [raised |-> r.raised, status |-> 200]
    IN  /\ Serving
        /\ r.conv_uuids <= maxConvs
        /\ r.msg_uuids <= 2 * maxTurns
        /\ conversations' = r.conversations
        /\ conv_uuids' = r.conv_uuids
        /\ msg_uuids' = r.msg_uuids
        /\ returned' = IF r.raised THEN returned
                       ELSE returned \cup {r.ret.conversation_id}
        /\ last' = Exchange("chat", message, cid, up, r.messages, r.ret,
                            <<>>, FALSE, ExceptException(body))
        /\ UNCHANGED <<boot, now, cleared_ids, conc>>

\* GET /api/chatbot/conversation/{conversation_id}
get_conversation_history_endpoint ==
  \E cid \in PathIds :
    LET r == get_conversation_history(conversations, cid)
        body == [raised |-> r.raised, status |-> 200]
    IN  /\ Serving
        /\ conversations' = r.conversations
        /\ last' = Exchange("history", "", cid, NoUpstream, <<>>, NoRet,
                            r.ret, FALSE, ExceptException(body))
        /\ UNCHANGED <<boot, conv_uuids, msg_uuids, now, returned, cleared_ids,
                       conc>>

\* DELETE /api/chatbot/conversation/{conversation_id}
clear_conversation_endpoint ==
  \E cid \in PathIds :
    LET r == clear_conversation(conversations, cid)
        \* the try body: return on success, raise HTTPException(404)
        \* otherwise, inside the try
        body == IF r.raised THEN [raised |-> TRUE, status |-> 500]
                ELSE IF r.ret THEN [raised |-> FALSE, status |-> 200]
                ELSE [raised |-> TRUE, status |-> 404]
    IN  /\ Serving
        /\ conversations' = r.conversations
        /\ cleared_ids' = IF r.ret THEN cleared_ids \cup {cid} ELSE cleared_ids
        /\ last' = Exchange("clear", "", cid, NoUpstream, <<>>, NoRet,
                            <<>>, r.ret, ExceptException(body))
        /\ UNCHANGED <<boot, conv_uuids, msg_uuids, now, returned, conc>>

\* ---- a chat call of caller t, one statement group at a time
\* what the caller gets back, and the caller free again
ChatReturns(t, ret) ==
  /\ last' = Exchange("chat", threads[t].message, threads[t].conversation_id,
                      threads'[t].up, threads[t].messages, ret, <<>>, FALSE, 200)
  /\ returned' = returned \cup {ret.conversation_id}

\* lines 38-56, then the request to the upstream model is under way
chat_call(t, maxConvs) ==
  \E message \in Texts, cid \in BodyIds :
    LET r == ChatEnter(conversations, conv_uuids, message, cid)
    IN  /\ Serving
        /\ threads[t].pc = "idle"
        /\ r.conv_uuids <= maxConvs
        /\ conversations' = r.conversations
        /\ conv_uuids' = r.conv_uuids
        /\ threads' = [threads EXCEPT ![t] =
             [pc |-> "upstream", message |-> message, conversation_id |-> cid,
              cid |-> r.cid, messages |-> r.messages, up |-> NoUpstream,
              user_id |-> "", timestamp |-> 0, called_at |-> now,
              responded_at |-> 0]]
        /\ UNCHANGED <<boot, msg_uuids, now, returned, cleared_ids, last,
                       turns, raced, upstream_ok>>

\* lines 58-77: the upstream call returns or raises; on a response the
\* timestamp is taken and the user message appended
chat_upstream(t, maxTurns) ==
  \E up \in UpstreamOutcomes :
    LET th == threads[t]
        ts == TurnTimestamp(th.called_at, now)
        uid == MsgUuid(msg_uuids + 1)
        app == ListAppend(conversations, th.cid,
                          UserMessage(uid, th.message, ts))
        fail == ExceptBranch(conversations, conv_uuids, msg_uuids,
                             th.messages, th.cid, now)
    IN  /\ Serving
        /\ th.pc = "upstream"
        /\ upstream_ok' =
             IF up.raises \/ th.cid \notin DOMAIN conversations THEN upstream_ok
             ELSE DictSet(upstream_ok, th.cid, DictGet(upstream_ok, th.cid, 0) + 1)
        /\ IF up.raises \/ app.raised
             THEN /\ conversations' = fail.conversations
                  /\ msg_uuids' = fail.msg_uuids
                  /\ threads' = [threads EXCEPT ![t] = [IdleThread EXCEPT !.up = up]]
                  /\ ChatReturns(t, fail.ret)
                  /\ UNCHANGED raced
             ELSE /\ msg_uuids + 2 <= 2 * maxTurns
                  /\ conversations' = app.conversations
                  /\ msg_uuids' = msg_uuids + 1
                  /\ threads' = [threads EXCEPT ![t] =
                       [th EXCEPT !.pc = "appended", !.up = up,
                                  !.user_id = uid, !.timestamp = ts,
                                  !.responded_at = now]]
                  /\ raced' =
                       IF \E o \in Threads \ {t} :
                            threads[o].pc = "appended" /\ threads[o].cid = th.cid
                         THEN raced \cup {th.cid} ELSE raced
                  /\ UNCHANGED <<returned, last>>
        /\ UNCHANGED <<boot, conv_uuids, now, cleared_ids, turns>>

\* lines 79-91: the assistant message appended, the response returned
chat_finish(t) ==
  LET th == threads[t]
      aid == AssistantMessageId(th.user_id, msg_uuids)
      app == ListAppend(conversations, th.cid,
                        AssistantMessage(aid, th.up.content, th.timestamp))
      fail == ExceptBranch(conversations, conv_uuids, msg_uuids,
                           th.messages, th.cid, now)
  IN  /\ Serving
      /\ th.pc = "appended"
      /\ threads' = [threads EXCEPT ![t] = [IdleThread EXCEPT !.up = th.up]]
      /\ IF app.raised
           THEN /\ conversations' = fail.conversations
                /\ msg_uuids' = fail.msg_uuids
                /\ ChatReturns(t, fail.ret)
                /\ UNCHANGED turns
           ELSE /\ conversations' = app.conversations
                /\ msg_uuids' = msg_uuids + 1
                /\ turns' = turns \cup
                     {[cid |-> th.cid, user_id |-> th.user_id, assistant_id |-> aid,
                       message |-> th.message, reply |-> th.up.content,
                       called_at |-> th.called_at,
                       responded_at |-> th.responded_at]}
                /\ ChatReturns(t, [message |-> th.up.content,
                                   conversation_id |-> th.cid,
                                   timestamp |-> th.timestamp])
      /\ UNCHANGED <<boot, conv_uuids, now, cleared_ids, raced, upstream_ok>>

Next ==
  \/ import_chatbot_routes
  \/ chat_endpoint(MaxConvs, MaxTurns)
  \/ get_conversation_history_endpoint
  \/ clear_conversation_endpoint

Spec == Init /\ [][Next]_vars

\* The same service explored in depth instead of in breadth: a single
\* conversation id is ever generated, and it takes up to LongTurns turns,
\* so that histories grow past the window of the prompt.
NextLong ==
  \/ import_chatbot_routes
  \/ chat_endpoint(1, LongTurns)
  \/ get_conversation_history_endpoint
  \/ clear_conversation_endpoint

SpecLong == Init /\ [][NextLong]_vars

\* The same service with the wall clock moving between requests.
NextClock ==
  \/ import_chatbot_routes
  \/ chat_endpoint(1, ClockTurns)
  \/ get_conversation_history_endpoint
  \/ clear_conversation_endpoint
  \/ Tick

SpecClock == Init /\ [][NextClock]_vars

\* The service driven by concurrent callers: a chat call is three steps
\* (enter, upstream response and first append, second append) that other
\* calls, fetches and clears can come between.
NextConc ==
  \/ import_chatbot_routes
  \/ \E t \in Threads : chat_call(t, 1)
  \/ \E t \in Threads : chat_upstream(t, ConcTurns)
  \/ \E t \in Threads : chat_finish(t)
  \/ get_conversation_history_endpoint
  \/ clear_conversation_endpoint

SpecConc == Init /\ [][NextConc]_vars

\* One caller running its chat calls step by step while the clock moves.
NextStep ==
  \/ import_chatbot_routes
  \/ chat_call("t1", 1)
  \/ chat_upstream("t1", ClockTurns)
  \/ chat_finish("t1")
  \/ get_conversation_history_endpoint
  \/ clear_conversation_endpoint
  \/ Tick

SpecStep == Init /\ [][NextStep]_vars

\* ================================================================ claims
\* What the last exchange was, read off the record the handlers leave.
IsChat == last.op = "chat"
IsHistory == last.op = "history"
IsClear == last.op = "clear"
\* the request carried a conversation id (a non-empty string)
IdSupplied == Truthy(last.conversation_id)
UpstreamOk == ~last.upstream.raises
\* the id of the request was in the dictionary when the request arrived
WasStored == last.conversation_id \in DOMAIN last.before
\* what a history fetch for id returns from dictionary d
HistoryOf(d, id) == get_conversation_history(d, id).ret
IsUserMsg(m, text) == m.role = "user" /\ m.content = text
IsAssistantMsg(m, text) == m.role = "assistant" /\ m.content = text

\* C1: a chat without conversation id whose upstream call succeeds returns
\* an id that was neither in the store nor returned by any earlier chat, and
\* a history fetch for it right afterwards returns exactly two messages:
\* the user message with the sent text, then the assistant message with the
\* upstream response text.
C1_NewConversationHoldsFirstTurn ==
  (IsChat /\ ~IdSupplied /\ UpstreamOk) =>
    LET id == last.ret.conversation_id
        h == HistoryOf(conversations, id)
    IN  /\ id \notin DOMAIN last.before
        /\ id \notin last.returned_before
        /\ Len(h) = 2
        /\ IsUserMsg(h[1], last.message)
        /\ IsAssistantMsg(h[2], last.upstream.content)

\* the second conversation is created while the first is still stored
C1_Witness ==
  /\ IsChat /\ ~IdSupplied /\ UpstreamOk
  /\ DOMAIN last.before # {}
  /\ last.returned_before # {}

\* C2: a chat on an id that is in the store, with a successful upstream
\* call, makes the history of that id exactly 2 longer, and the two new
\* last entries are this turn's user message and assistant message.
C2_ExistingConversationGrowsByTwo ==
  (IsChat /\ IdSupplied /\ WasStored /\ UpstreamOk) =>
    LET id == last.conversation_id
        n == Len(HistoryOf(last.before, id))
        h == HistoryOf(conversations, id)
    IN  /\ Len(h) = n + 2
        /\ IsUserMsg(h[n + 1], last.message)
        /\ IsAssistantMsg(h[n + 2], last.upstream.content)

C2_Witness ==
  /\ IsChat /\ IdSupplied /\ WasStored /\ UpstreamOk
  /\ Len(last.before[last.conversation_id]) >= 2

\* C3: a chat with a supplied conversation id whose upstream call fails
\* does not raise (the endpoint answers 200), returns the fixed apology
\* text and the supplied id, and leaves the history of that id as it was.
C3_FailedTurnKeepsHistory ==
  (IsChat /\ IdSupplied /\ ~UpstreamOk) =>
    /\ last.status = 200
    /\ last.ret.message = ApologyText
    /\ last.ret.conversation_id = last.conversation_id
    /\ HistoryOf(conversations, last.conversation_id)
         = HistoryOf(last.before, last.conversation_id)

C3_Witness ==
  /\ IsChat /\ IdSupplied /\ ~UpstreamOk /\ WasStored
  /\ Len(last.before[last.conversation_id]) >= 2

\* C4: a chat with a supplied conversation id that is not in the store,
\* with a successful upstream call, creates the conversation and appends
\* the turn, so that a history fetch returns the user and the assistant
\* message of the turn.
C4_UnknownIdIsCreated ==
  (IsChat /\ IdSupplied /\ ~WasStored /\ UpstreamOk) =>
    LET h == HistoryOf(conversations, last.conversation_id)
    IN  /\ last.conversation_id \in DOMAIN conversations
        /\ Len(h) = 2
        /\ IsUserMsg(h[1], last.message)
        /\ IsAssistantMsg(h[2], last.upstream.content)

\* C5: chat returns the apology text if and only if the upstream call
\* failed; whenever the upstream call succeeds the returned message is the
\* upstream response text, whatever the conversation id argument.
C5_ApologyIffUpstreamFailed ==
  IsChat =>
    /\ (last.ret.message = ApologyText) <=> ~UpstreamOk
    /\ UpstreamOk => last.ret.message = last.upstream.content

\* C6 as stated: a chat whose upstream call fails, with or without a
\* supplied conversation id, leaves the whole store as it was.
C6_FailedChatLeavesStoreUntouched ==
  (IsChat /\ ~UpstreamOk) => conversations = last.before

\* C6 amended: a chat whose upstream call fails keeps every conversation
\* that was stored, with its history unchanged; with a supplied id the
\* store is unchanged, without one the store gains exactly the freshly
\* generated id it returns, with an empty history.
C6_FailedChatOnlyAddsEmptyConversation ==
  (IsChat /\ ~UpstreamOk) =>
    /\ \A c \in DOMAIN last.before :
         c \in DOMAIN conversations /\ conversations[c] = last.before[c]
    /\ IF IdSupplied
         THEN conversations = last.before
         ELSE /\ last.ret.conversation_id \notin DOMAIN last.before
              /\ DOMAIN conversations
                   = DOMAIN last.before \cup {last.ret.conversation_id}
              /\ conversations[last.ret.conversation_id] = <<>>

C6_Witness ==
  /\ IsChat /\ ~UpstreamOk /\ ~IdSupplied
  /\ \E c \in DOMAIN last.before : Len(last.before[c]) >= 2

\* C7: the clear endpoint called with an id that is not in the store
\* answers 404, not the generic 500.
C7_ClearUnknownAnswers404 ==
  (IsClear /\ ~WasStored) => last.status = 404

\* C8: clear of a stored id returns true and removes exactly that
\* conversation; a second clear of the same id right after it returns
\* false and changes nothing; clear of an id that is not stored returns
\* false and changes nothing.
C8_ClearTrueOnceThenFalse ==
  IsClear =>
    LET id == last.conversation_id
        again == clear_conversation(conversations, id)
    IN  /\ WasStored =>
             /\ last.cleared = TRUE
             /\ DOMAIN conversations = DOMAIN last.before \ {id}
             /\ \A c \in DOMAIN conversations : conversations[c] = last.before[c]
             /\ again.ret = FALSE
             /\ again.conversations = conversations
        /\ ~WasStored =>
             /\ last.cleared = FALSE
             /\ conversations = last.before

\* a clear of an id that an earlier clear removed
C8_Witness ==
  /\ IsClear /\ ~WasStored /\ ~last.cleared
  /\ last.conversation_id \in IssuedConvIds

\* C9: for a conversation holding n stored messages the list sent upstream
\* is one system entry, then the last min(n, 10) stored messages in stored
\* order as role/content pairs, then the new user message; min(n, 10) + 2
\* entries in all.
C9_PromptIsSystemWindowUser ==
  IsChat =>
    LET h == IF IdSupplied THEN HistoryOf(last.before, last.conversation_id)
             ELSE <<>>
        n == Len(h)
        k == IF n < 10 THEN n ELSE 10
        p == last.messages
    IN  /\ Len(p) = k + 2
        /\ p[1] = [role |-> "system", content |-> SystemPrompt]
        /\ \A i \in 1..k :
             p[1 + i] = [role |-> h[n - k + i].role,
                         content |-> h[n - k + i].content]
        /\ p[k + 2] = [role |-> "user", content |-> last.message]

\* a prompt built over a history longer than the window
C9_Witness ==
  /\ IsChat /\ IdSupplied /\ WasStored
  /\ Len(last.before[last.conversation_id]) >= 12
  /\ Len(last.messages) = 12

\* C10: a history fetch for an id that is not in the store answers 200
\* with the empty sequence, does not create the conversation, and a clear
\* of that id right after it returns false.
C10_UnknownHistoryIsEmpty ==
  (IsHistory /\ ~WasStored) =>
    /\ last.status = 200
    /\ last.history = <<>>
    /\ conversations = last.before
    /\ clear_conversation(conversations, last.conversation_id).ret = FALSE

\* the fetch is for an id that was stored once and has been cleared
C10_Witness ==
  /\ IsHistory /\ ~WasStored
  /\ last.conversation_id \in IssuedConvIds

\* C11: when the API credential is absent at process start the service is
\* never constructed: the import ends in the ValueError of __init__, and no
\* chat, history or clear is ever executed in that run.
C11_NoServiceWithoutCredential ==
  ~Truthy(api_key) =>
    /\ groq_service # "constructed"
    /\ last.op = "none"
    /\ conversations = [c \in {} |-> <<>>]
    /\ returned = {} /\ cleared_ids = {}

\* the import has run and failed
C11_Witness == ~Truthy(api_key) /\ groq_service = "ValueError"

\* ---- claims about chat calls that overlap (SpecConc, SpecStep)
\* a chat call on id c has appended its user message and not yet its
\* assistant message
MidTurn(c) == \E t \in Threads : threads[t].pc = "appended" /\ threads[t].cid = c
AllIdle == \A t \in Threads : threads[t].pc = "idle"
IsPrefix(a, b) == Len(a) <= Len(b) /\ SubSeq(b, 1, Len(a)) = a
\* the history of c is a row of pairs: a user message directly followed by
\* the assistant message of the same turn
PairedHistory(c) ==
  LET h == conversations[c]
  IN  /\ Len(h) % 2 = 0
      /\ \A i \in 1..Len(h) :
           i % 2 = 1 =>
             /\ h[i].role = "user"
             /\ h[i + 1].role = "assistant"
             /\ \E tr \in turns :
                  /\ tr.cid = c
                  /\ tr.user_id = h[i].id
                  /\ tr.assistant_id = h[i + 1].id

C13_AppendOnly ==
  [][\A c \in DOMAIN conversations :
       IF c \in DOMAIN conversations'
         THEN IsPrefix(conversations[c], conversations'[c])
         ELSE c \in cleared_ids' \ cleared_ids]_vars

\* a history that grew over two turns
C13_Witness ==
  \E c \in DOMAIN conversations :
    Len(conversations[c]) >= 4 /\ last.op = "chat" /\ UpstreamOk

\* C14: the window of the prompt does not bound the store: a chat on a
\* stored id keeps the whole earlier history as a prefix, a successful one
\* adds exactly two messages to it and a failed one none, so that a
\* conversation that was never cleared holds two messages for each of its
\* k successful turns, also when k > 5.
C14_StoreKeepsEveryTurn ==
  (IsChat /\ IdSupplied /\ WasStored) =>
    LET c == last.conversation_id
        b == last.before[c]
        h == HistoryOf(conversations, c)
    IN  /\ IsPrefix(b, h)
        /\ Len(h) = (IF UpstreamOk THEN Len(b) + 2 ELSE Len(b))
        /\ \A o \in DOMAIN last.before \ {c} :
             o \in DOMAIN conversations /\ conversations[o] = last.before[o]
        /\ cleared_ids = {} => Len(h) = msg_uuids

\* the sixth successful turn, or a later one, of a conversation
C14_Witness ==
  /\ IsChat /\ IdSupplied /\ WasStored /\ UpstreamOk
  /\ cleared_ids = {}
  /\ Len(last.before[last.conversation_id]) >= HistoryWindow
  /\ Len(last.messages) = HistoryWindow + 2
  /\ Len(conversations[last.conversation_id]) >= HistoryWindow + 2

\* every message held in the store, with the place it is stored at
StoredPlaces ==
  UNION {{<<c, i>> : i \in 1..Len(conversations[c])} :
           c \in DOMAIN conversations}
\* the last exchange is a chat that returned the upstream reply, and its
\* conversation is still stored with no later turn appending to it
ChatSucceeded ==
  /\ IsChat /\ UpstreamOk
  /\ last.ret.message # ApologyText
  /\ last.ret.conversation_id \in DOMAIN conversations
  /\ ~MidTurn(last.ret.conversation_id)

\* C15: a successful chat turn reads the clock once, after the upstream
\* response has arrived; the stored user message, the stored assistant
\* message and the returned response all carry that reading; the ids of
\* the two messages differ from each other and from every other stored
\* message id.
C15_OneTimestampFreshIds ==
  /\ ChatSucceeded =>
       LET h == conversations[last.ret.conversation_id]
           n == Len(h)
       IN  /\ n >= 2
           /\ h[n - 1].timestamp = last.ret.timestamp
           /\ h[n].timestamp = last.ret.timestamp
           /\ \E tr \in turns :
                /\ tr.user_id = h[n - 1].id
                /\ tr.assistant_id = h[n].id
                /\ tr.responded_at = last.ret.timestamp
                /\ tr.called_at <= tr.responded_at
  /\ \A p \in StoredPlaces : \A q \in StoredPlaces :
       p # q => conversations[p[1]][p[2]].id # conversations[q[1]][q[2]].id

\* the second turn of a conversation, with the clock moving between the
\* call and the upstream response
C15_Witness ==
  /\ ChatSucceeded
  /\ Len(conversations[last.ret.conversation_id]) >= 4
  /\ \E tr \in turns :
       /\ tr.assistant_id =
            conversations[last.ret.conversation_id]
              [Len(conversations[last.ret.conversation_id])].id
       /\ tr.called_at < tr.responded_at

\* C16: a clear is permanent: an id whose clear returned True is never in
\* the store again, whatever happens afterwards (a chat call that was in
\* flight during the clear, a later chat that supplies the id and whose
\* upstream call succeeds): its history fetch stays empty and a further
\* clear of it returns False.
C16_ClearedIdNeverReturns ==
  \A c \in cleared_ids :
    /\ c \notin DOMAIN conversations
    /\ HistoryOf(conversations, c) = <<>>
    /\ ~clear_conversation(conversations, c).ret

\* a chat call on the id was waiting for the upstream response when the id
\* was cleared, and has returned since
C16_Witness ==
  /\ IsChat /\ UpstreamOk
  /\ last.conversation_id \in cleared_ids
  /\ Len(last.messages) > 2
  /\ \E t \in Threads :
       /\ threads[t].pc = "upstream"
       /\ threads[t].conversation_id = last.conversation_id
       /\ threads[t].cid \in cleared_ids

\* C17: conversations are isolated: a chat, history fetch or clear
\* addressed to one id leaves the presence and the history of every other
\* id as they were, and a chat without an id adds exactly one id to the
\* store, the fresh id it returns.
C17_OtherConversationsUntouched ==
  (IsChat \/ IsHistory \/ IsClear) =>
    LET a == IF IsChat /\ ~IdSupplied THEN last.ret.conversation_id
             ELSE last.conversation_id
    IN  /\ \A b \in (DOMAIN last.before \cup DOMAIN conversations) \ {a} :
             /\ b \in DOMAIN last.before
             /\ b \in DOMAIN conversations
             /\ conversations[b] = last.before[b]
        /\ (IsChat /\ ~IdSupplied) =>
             /\ a \notin DOMAIN last.before
             /\ DOMAIN conversations = DOMAIN last.before \cup {a}

\* a turn on one conversation, or a clear of it, while another conversation
\* holds messages
C17_Witness ==
  /\ IsChat \/ IsClear
  /\ IdSupplied /\ WasStored
  /\ conversations # last.before
  /\ \E b \in DOMAIN conversations \ {last.conversation_id} :
       Len(conversations[b]) >= 2

\* the places of the history of c that hold the message with this id
PlacesOf(c, id) == {i \in 1..Len(conversations[c]) : conversations[c][i].id = id}

\* C18: without a clear in between, no update is lost among overlapping
\* chat turns on one id: once the calls have returned, the history holds
\* two messages for each turn whose upstream call succeeded, and the user
\* message and the assistant message of each such turn exactly once.
C18_NoLostUpdate ==
  AllIdle =>
    \A c \in DOMAIN conversations :
      LET h == conversations[c]
          done == {tr \in turns : tr.cid = c}
      IN  /\ Len(h) = 2 * DictGet(upstream_ok, c, 0)
          /\ Cardinality(done) = DictGet(upstream_ok, c, 0)
          /\ \A tr \in done :
               /\ Cardinality(PlacesOf(c, tr.user_id)) = 1
               /\ Cardinality(PlacesOf(c, tr.assistant_id)) = 1
               /\ \A i \in PlacesOf(c, tr.user_id) :
                    IsUserMsg(h[i], tr.message)
               /\ \A j \in PlacesOf(c, tr.assistant_id) :
                    /\ IsAssistantMsg(h[j], tr.reply)
                    /\ \A i \in PlacesOf(c, tr.user_id) : i < j

\* two turns on one id have interleaved their appends and both returned
C18_Witness ==
  /\ AllIdle
  /\ \E c \in DOMAIN conversations \cap raced :
       /\ Len(conversations[c]) = 4
       /\ conversations[c][1].role = "user"
       /\ conversations[c][2].role = "user"
====
